---- MODULE Spec2Model ----
(***************************************************************************)
(* Model of the Jira ticket export script (src/jira-ticket-fetcher.py):    *)
(* the driver, the paginated fetch loop, the field-exclusion engine and    *)
(* the file writer.                                                        *)
(*                                                                         *)
(* Python strings are sequences of one-character strings, so that          *)
(* str.split, str.lower, int(str) and f-string formatting are computed.    *)
(* A JSON value is a record [t, s, kids]: t is "dict", "list", "str" or    *)
(* "num"; s is the text of a "str"; kids is the ordered list of entries    *)
(* [k, v] (k is the key in a dict and the empty string in a list).         *)
(* Python dicts keep insertion order, and json.load builds trees without   *)
(* sharing, so in-place mutation is modelled by returning the new tree.    *)
(* The file system is taken to accept every write.                         *)
(***************************************************************************)
EXTENDS Integers, Sequences, FiniteSets, TLC

VARIABLES
    pc,                     \* position of the running code
    configuration,          \* __main__: configuration (result of load_config)
    all_issues,             \* fetch_jira_tickets: all_issues
    start_at,               \* fetch_jira_tickets: start_at
    total_issues_expected,  \* fetch_jira_tickets: total_issues_expected
    fetched_tickets,        \* __main__: fetched_tickets; also the batch handed to a function under test
    requests,               \* history: the startAt of every request issued, in order
    api,                    \* history: the first reported total, whether the server has answered
                            \* every request faithfully, and its last response
    trace,                  \* history: the stages run, in order
    files,                  \* the files written, in order: [name, content]
    given,                  \* history: the batch a function under test was first called with
    call_path,              \* the path_segments a call of _delete_nested_key_recursive is given
    calls                   \* number of completed calls of the function under test

vars == <<pc, configuration, all_issues, start_at, total_issues_expected,
          fetched_tickets, requests, api, trace, files, given, call_path, calls>>

\* ---------------------------------------------------------------- bounds
MaxTotal == 4       \* largest total a response reports
MaxPageSize == 3    \* largest max_results, and longest page the server sends
MaxBatch == 5       \* longest batch handed to save_tickets
MaxChunk == 3       \* largest integer given as tickets_per_file
MaxPathLen == 3     \* longest segment list, and deepest nesting of a deletion target
MaxPathChars == 3   \* longest dotted path string
MaxTpfChars == 3    \* longest string given as tickets_per_file

\* ---------------------------------------------------------------- helpers
Min(a, b) == IF a <= b THEN a ELSE b

RECURSIVE Concat(_)
Concat(ss) == IF ss = <<>> THEN <<>> ELSE Head(ss) \o Concat(Tail(ss))

SeqsUpTo(S, n) == UNION {[1..m -> S] : m \in 0..n}

\* Python's str.lower on the letters used here
LowerChar(c) ==
    CASE c = "J" -> "j" [] c = "S" -> "s" [] c = "O" -> "o" [] c = "N" -> "n"
      [] c = "X" -> "x" [] c = "M" -> "m" [] c = "L" -> "l" [] OTHER -> c

PyLower(s) == [i \in DOMAIN s |-> LowerChar(s[i])]

\* Python's str.split(sep) with a one-character separator: always at least
\* one segment; empty segments are kept
RECURSIVE PySplit(_, _)
PySplit(s, sep) ==
    IF \A i \in DOMAIN s : s[i] # sep THEN <<s>>
    ELSE LET p == CHOOSE i \in DOMAIN s : s[i] = sep /\ \A j \in 1..(i-1) : s[j] # sep
         IN <<SubSeq(s, 1, p - 1)>> \o PySplit(SubSeq(s, p + 1, Len(s)), sep)

DigitChar(d) == <<"0", "1", "2", "3", "4", "5", "6", "7", "8", "9">>[d + 1]

\* str(n) for n >= 0, as an f-string formats it
RECURSIVE PyStr(_)
PyStr(n) == IF n < 10 THEN <<DigitChar(n)>> ELSE PyStr(n \div 10) \o <<DigitChar(n % 10)>>

\* --------------------------------------------------------------- JSON values
Str(s) == [t |-> "str", s |-> s, kids |-> <<>>]
Num == [t |-> "num", s |-> <<>>, kids |-> <<>>]
Dict(entries) == [t |-> "dict", s |-> <<>>, kids |-> entries]
List(items) == [t |-> "list", s |-> <<>>, kids |-> [i \in DOMAIN items |-> [k |-> <<>>, v |-> items[i]]]]
KV(k, v) == [k |-> k, v |-> v]

IsDict(x) == x.t = "dict"
IsList(x) == x.t = "list"

\* key in d, d[key] and del d[key] on a dict
HasKey(d, key) == \E i \in DOMAIN d.kids : d.kids[i].k = key
GetKey(d, key) == d.kids[CHOOSE i \in DOMAIN d.kids : d.kids[i].k = key].v
DelKey(d, key) == [d EXCEPT !.kids = SelectSeq(@, LAMBDA e : e.k # key)]
SetKey(d, key, val) == [d EXCEPT !.kids = [i \in DOMAIN @ |-> IF @[i].k = key THEN KV(key, val) ELSE @[i]]]

\* the literal "fields" of process_tickets_data
FieldsKey == <<"f", "i", "e", "l", "d", "s">>

\* the outcome of an operation that raised (TypeError, KeyError)
Raise == [t |-> "raise", s |-> <<>>, kids |-> <<>>]

\* Python's `key in x`: membership in a dict's keys, in a list's elements, as
\* a substring of a str; TypeError on a number, a boolean or None
PyContains(x, key) ==
    CASE x.t = "dict" -> IF HasKey(x, key) THEN "yes" ELSE "no"
      [] x.t = "list" -> IF \E i \in DOMAIN x.kids : x.kids[i].v = Str(key) THEN "yes" ELSE "no"
      [] x.t = "str" ->
            IF \E i \in 0..(Len(x.s) - Len(key)) : SubSeq(x.s, i + 1, i + Len(key)) = key
            THEN "yes" ELSE "no"
      [] OTHER -> "TypeError"

\* ------------------------------------------------ the field-exclusion engine
\* a variant that recurses into every element of a list, dict or not
RECURSIVE DeleteIntoEveryElement(_, _)
DeleteIntoEveryElement(current_item, path_segments) ==
    IF path_segments = <<>> THEN current_item
    ELSE LET key_to_process == Head(path_segments) IN
      IF IsList(current_item) THEN
        [current_item EXCEPT !.kids =
            [i \in DOMAIN @ |-> KV(@[i].k, DeleteIntoEveryElement(@[i].v, path_segments))]]
      ELSE IF ~IsDict(current_item) \/ ~HasKey(current_item, key_to_process) THEN current_item
      ELSE IF Len(path_segments) = 1 THEN DelKey(current_item, key_to_process)
      ELSE SetKey(current_item, key_to_process,
                  DeleteIntoEveryElement(GetKey(current_item, key_to_process),
                                         Tail(path_segments)))

RECURSIVE _delete_nested_key_recursive(_, _)
\* the item as the call leaves it, or Raise
_delete_nested_key_recursive(current_item, path_segments) ==
    IF path_segments = <<>> THEN current_item
    ELSE LET key_to_process == Head(path_segments) IN
      IF IsList(current_item) THEN
        LET done == [i \in DOMAIN current_item.kids |->
                        IF IsDict(current_item.kids[i].v)
                        THEN _delete_nested_key_recursive(current_item.kids[i].v, path_segments)
                        ELSE current_item.kids[i].v]
        IN IF \E i \in DOMAIN done : done[i] = Raise THEN Raise
           ELSE [current_item EXCEPT !.kids = [i \in DOMAIN @ |-> KV(@[i].k, done[i])]]
      ELSE IF ~IsDict(current_item) THEN current_item
      ELSE IF PyContains(current_item, key_to_process) = "TypeError" THEN Raise
      ELSE IF PyContains(current_item, key_to_process) = "no" THEN current_item
      ELSE IF Len(path_segments) = 1 THEN DelKey(current_item, key_to_process)
      ELSE LET sub == _delete_nested_key_recursive(GetKey(current_item, key_to_process),
                                                   Tail(path_segments))
           IN IF sub = Raise THEN Raise ELSE SetKey(current_item, key_to_process, sub)

\* a variant that steps over the name following a deleted one, as a loop does
\* that deletes from the list it iterates
RECURSIVE SkipAfterDelete(_, _)
SkipAfterDelete(ticket, global_exclusions) ==
    IF global_exclusions = <<>> THEN ticket
    ELSE IF PyContains(ticket, Head(global_exclusions)) = "yes"
    THEN SkipAfterDelete(DelKey(ticket, Head(global_exclusions)),
                         IF Len(global_exclusions) >= 2 THEN Tail(Tail(global_exclusions))
                         ELSE <<>>)
    ELSE SkipAfterDelete(ticket, Tail(global_exclusions))

\* lines 173-178: the loop over global_key_exclusions on one ticket
RECURSIVE ApplyGlobalExclusions(_, _)
ApplyGlobalExclusions(ticket, global_exclusions) ==
    IF global_exclusions = <<>> THEN ticket
    ELSE LET key_to_del == Head(global_exclusions)
             next == IF PyContains(ticket, key_to_del) = "yes"
                     THEN DelKey(ticket, key_to_del) ELSE ticket
         IN ApplyGlobalExclusions(next, Tail(global_exclusions))

\* lines 189-192: the loop over the dotted paths of one main field
RECURSIVE ApplySubKeyPaths(_, _)
ApplySubKeyPaths(target_item_for_sub_keys, sub_key_paths_to_exclude) ==
    IF sub_key_paths_to_exclude = <<>> THEN target_item_for_sub_keys
    ELSE LET path_segments == PySplit(Head(sub_key_paths_to_exclude), ".")
             next == _delete_nested_key_recursive(target_item_for_sub_keys, path_segments)
         IN IF next = Raise THEN Raise
            ELSE ApplySubKeyPaths(next, Tail(sub_key_paths_to_exclude))

\* lines 183-192: the loop over ticket_field_exclusions.items() on ticket["fields"]
RECURSIVE ApplyFieldExclusions(_, _)
ApplyFieldExclusions(ticket_fields_obj, ticket_field_exclusions) ==
    IF ticket_field_exclusions = <<>> THEN ticket_fields_obj
    ELSE LET main_field_key == Head(ticket_field_exclusions).k
             paths == Head(ticket_field_exclusions).paths
             next ==
               IF PyContains(ticket_fields_obj, main_field_key) = "yes"
                  /\ (IsDict(GetKey(ticket_fields_obj, main_field_key))
                      \/ IsList(GetKey(ticket_fields_obj, main_field_key)))
               THEN LET sub == ApplySubKeyPaths(GetKey(ticket_fields_obj, main_field_key), paths)
                    IN IF sub = Raise THEN Raise
                       ELSE SetKey(ticket_fields_obj, main_field_key, sub)
               ELSE ticket_fields_obj
         IN IF next = Raise THEN Raise
            ELSE ApplyFieldExclusions(next, Tail(ticket_field_exclusions))

\* a variant without the isinstance(ticket, dict) test of line 169
ProcessTicketUnchecked(ticket, global_exclusions, ticket_field_exclusions) ==
    IF ~IsDict(ticket)
    THEN IF global_exclusions # <<>> /\ PyContains(ticket, Head(global_exclusions)) # "no"
         THEN Raise
         ELSE IF PyContains(ticket, FieldsKey) = "TypeError" THEN Raise ELSE ticket
    ELSE LET t1 == ApplyGlobalExclusions(ticket, global_exclusions) IN
      IF PyContains(t1, FieldsKey) = "yes" /\ IsDict(GetKey(t1, FieldsKey))
      THEN LET f == ApplyFieldExclusions(GetKey(t1, FieldsKey), ticket_field_exclusions)
           IN IF f = Raise THEN Raise ELSE SetKey(t1, FieldsKey, f)
      ELSE t1

\* lines 169-193: the body of the loop over tickets
ProcessTicket(ticket, global_exclusions, ticket_field_exclusions) ==
    IF ~IsDict(ticket) THEN ticket
    ELSE LET t1 == ApplyGlobalExclusions(ticket, global_exclusions) IN
      IF PyContains(t1, FieldsKey) = "yes" /\ IsDict(GetKey(t1, FieldsKey))
      THEN LET f == ApplyFieldExclusions(GetKey(t1, FieldsKey), ticket_field_exclusions)
           IN IF f = Raise THEN Raise ELSE SetKey(t1, FieldsKey, f)
      ELSE t1

\* line 168: for ticket in tickets; a raise leaves the later tickets untouched
RECURSIVE ProcessLoop(_, _, _)
ProcessLoop(tickets, global_exclusions, ticket_field_exclusions) ==
    IF tickets = <<>> THEN [raised |-> FALSE, tickets |-> <<>>]
    ELSE LET first == ProcessTicket(Head(tickets), global_exclusions, ticket_field_exclusions)
         IN IF first = Raise THEN [raised |-> TRUE, tickets |-> tickets]
            ELSE LET rest == ProcessLoop(Tail(tickets), global_exclusions, ticket_field_exclusions)
                 IN [raised |-> rest.raised, tickets |-> <<first>> \o rest.tickets]

\* a configuration is truthy when it is a non-empty dict
Truthy(config) == config.kind = "dict"

\* a batch variable of the driver: None, or a list of tickets
None == [none |-> TRUE, items |-> <<>>]
Batch(items) == [none |-> FALSE, items |-> items]

\* process_tickets_data(tickets, config): the batch as the call leaves it
process_tickets_data(tickets, config) ==
    IF tickets.none \/ tickets.items = <<>> \/ ~Truthy(config)
    THEN [raised |-> FALSE, tickets |-> tickets]
    ELSE IF config.global_key_exclusions = <<>> /\ config.ticket_field_exclusions = <<>>
         THEN [raised |-> FALSE, tickets |-> tickets]
    ELSE LET r == ProcessLoop(tickets.items, config.global_key_exclusions,
                              config.ticket_field_exclusions)
         IN [raised |-> r.raised, tickets |-> Batch(r.tickets)]

\* ------------------------------------------------------------- the writer
Json == <<"j", "s", "o", "n">>
DefaultExportFilename == <<"j", "i", "r", "a", "_", "t", "i", "c", "k", "e", "t", "s">>

\* a configuration value that may be absent: config.get(key, default)
Absent == [has |-> FALSE, v |-> <<>>]
Present(v) == [has |-> TRUE, v |-> v]
ConfigGet(field, default) == IF field.has THEN field.v ELSE default

\* the values tickets_per_file can hold: [k, n, s], k the Python type;
\* n is the value of an int or a bool and the tenths of a float
TpfNone == [k |-> "none", n |-> 0, s |-> <<>>]
TpfInt(n) == [k |-> "int", n |-> n, s |-> <<>>]
TpfBool(n) == [k |-> "bool", n |-> n, s |-> <<>>]
TpfFloat(tenths) == [k |-> "float", n |-> tenths, s |-> <<>>]
TpfStr(s) == [k |-> "str", n |-> 0, s |-> s]
TpfList == [k |-> "list", n |-> 0, s |-> <<>>]

IsDigit(c) == c \in {"0", "1", "2", "3", "4", "5", "6", "7", "8", "9"}
DigitValue(c) == CHOOSE d \in 0..9 : DigitChar(d) = c

RECURSIVE DigitsValue(_)
DigitsValue(s) == IF s = <<>> THEN 0 ELSE 10 * DigitsValue(SubSeq(s, 1, Len(s) - 1)) + DigitValue(s[Len(s)])

\* Python's int(x): [status, n]; int(str) takes an optional sign and digits,
\* int(float) truncates toward zero, int(list) is a TypeError
PyInt(x) ==
    CASE x.k \in {"int", "bool"} -> [status |-> "ok", n |-> x.n]
      [] x.k = "float" ->
            [status |-> "ok", n |-> IF x.n >= 0 THEN x.n \div 10 ELSE 0 - ((0 - x.n) \div 10)]
      [] x.k = "str" ->
            LET signed == x.s # <<>> /\ x.s[1] \in {"-", "+"}
                digits == IF signed THEN Tail(x.s) ELSE x.s
            IN IF digits # <<>> /\ \A i \in DOMAIN digits : IsDigit(digits[i])
               THEN [status |-> "ok",
                     n |-> IF signed /\ x.s[1] = "-" THEN 0 - DigitsValue(digits)
                           ELSE DigitsValue(digits)]
               ELSE [status |-> "ValueError", n |-> 0]
      [] OTHER -> [status |-> "TypeError", n |-> 0]

\* a variant that rounds down: a // b
FloorDiv(a, b) == a \div b

\* math.ceil(a / b) for a >= 0, b >= 1
PyCeilDiv(a, b) == (a + b - 1) \div b

\* tickets[start:end]
PySlice(tickets, start, end) == SubSeq(tickets, start + 1, Min(end, Len(tickets)))

\* lines 215-223: the validated tickets_per_file, 0 for None;
\* status "TypeError" when int() raises what the except clause does not catch
ValidateTicketsPerFile(tickets_per_file_str) ==
    IF tickets_per_file_str.k = "none" THEN [status |-> "ok", n |-> 0]
    ELSE LET r == PyInt(tickets_per_file_str) IN
      CASE r.status = "ok" -> [status |-> "ok", n |-> IF r.n <= 0 THEN 0 ELSE r.n]
        [] r.status = "ValueError" -> [status |-> "ok", n |-> 0]
        [] OTHER -> [status |-> "TypeError", n |-> 0]

SaveResult(written, error, raised) == [files |-> written, error |-> error, raised |-> raised]

\* lines 232-254: the loop writing one file per chunk
RECURSIVE WriteChunks(_, _, _, _, _, _)
WriteChunks(i, num_files, tickets, tickets_per_file, export_filename_base, export_format) ==
    IF i >= num_files THEN SaveResult(<<>>, FALSE, FALSE)
    ELSE LET start_index == i * tickets_per_file
             end_index == start_index + tickets_per_file
             ticket_chunk == PySlice(tickets, start_index, end_index)
             output_file == export_filename_base \o PyStr(i + 1) \o <<".">> \o export_format
         IN IF export_format = Json
            THEN LET rest == WriteChunks(i + 1, num_files, tickets, tickets_per_file,
                                         export_filename_base, export_format)
                 IN SaveResult(<<[name |-> output_file, content |-> ticket_chunk]>> \o rest.files,
                               rest.error, rest.raised)
            ELSE SaveResult(<<>>, TRUE, FALSE)

\* save_tickets(tickets, config): the files written in order, whether an
\* error was reported, whether an exception escaped
save_tickets(tickets, config) ==
    IF tickets.none THEN SaveResult(<<>>, FALSE, FALSE)
    ELSE IF ~Truthy(config) THEN SaveResult(<<>>, FALSE, FALSE)
    ELSE LET export_filename_base == ConfigGet(config.export_filename, DefaultExportFilename)
             export_format == PyLower(ConfigGet(config.export_format, Json))
             validated == ValidateTicketsPerFile(config.tickets_per_file)
             tickets_per_file == validated.n
             total_tickets == Len(tickets.items)
         IN IF validated.status = "TypeError" THEN SaveResult(<<>>, FALSE, TRUE)
            ELSE IF tickets_per_file # 0 /\ total_tickets > 0
            THEN WriteChunks(0, PyCeilDiv(total_tickets, tickets_per_file), tickets.items,
                             tickets_per_file, export_filename_base, export_format)
            ELSE LET output_file == export_filename_base \o <<".">> \o export_format
                 IN IF export_format = Json
                    THEN SaveResult(<<[name |-> output_file, content |-> tickets.items]>>,
                                    FALSE, FALSE)
                    ELSE SaveResult(<<>>, TRUE, FALSE)

\* ------------------------------------------------------------ configurations
A == <<"a">>
B == <<"b">>
ExportFilename == <<"o", "u", "t">>

NoConfig ==
    [kind |-> "none", access_token |-> FALSE, jira_base_url |-> FALSE, jql_query |-> FALSE,
     max_results |-> 1, export_filename |-> Absent, export_format |-> Absent,
     tickets_per_file |-> TpfNone, global_key_exclusions |-> <<>>,
     ticket_field_exclusions |-> <<>>]

\* {} : a configuration file holding an empty object
EmptyConfig == [NoConfig EXCEPT !.kind = "empty"]

\* a configuration that passes the checks of fetch_jira_tickets
BaseConfig ==
    [NoConfig EXCEPT !.kind = "dict", !.access_token = TRUE, !.jira_base_url = TRUE,
                     !.jql_query = TRUE, !.export_filename = Present(ExportFilename)]

\* the export settings the driver is run with
ExportSettings ==
    { [f |-> Present(Json), n |-> TpfNone, g |-> <<>>, x |-> <<>>],
      [f |-> Present(Json), n |-> TpfInt(2), g |-> <<B>>,
       x |-> <<[k |-> A, paths |-> <<<<"b">>, <<"a", ".", "a">>>>]>>],
      [f |-> Present(<<"x", "m", "l">>), n |-> TpfInt(2), g |-> <<>>,
       x |-> <<[k |-> B, paths |-> <<<<"b">>>>]>>] }

DriverConfigs ==
    {NoConfig, EmptyConfig}
    \cup { [BaseConfig EXCEPT !.access_token = c[1], !.jira_base_url = c[2], !.jql_query = c[3],
                              !.max_results = p]
           : c \in {<<TRUE, TRUE, FALSE>>, <<TRUE, FALSE, TRUE>>, <<FALSE, TRUE, TRUE>>},
             p \in {1} }
    \cup { [BaseConfig EXCEPT !.max_results = p, !.export_format = e.f,
                              !.tickets_per_file = e.n, !.global_key_exclusions = e.g,
                              !.ticket_field_exclusions = e.x]
           : p \in 1..MaxPageSize, e \in ExportSettings }

\* ------------------------------------------------------------------ the server
\* the ticket at position i (from 1) of the server's result list
TicketAt(i) ==
    IF i % 3 = 0 THEN Str(PyStr(i))
    ELSE Dict(<<KV(A, Str(PyStr(i))),
                KV(B, Num),
                KV(FieldsKey,
                   Dict(<<KV(A, Dict(<<KV(A, Dict(<<KV(A, Num), KV(B, Num)>>)),
                                       KV(B, Str(PyStr(i)))>>)),
                          KV(B, List(<<Dict(<<KV(A, Num), KV(B, Num)>>), Num>>))>>))>>)

ResultList(T) == [i \in 1..T |-> TicketAt(i)]

\* what one request can meet: a 2xx response with a JSON object holding n
\* issues (those at positions from+1 .. from+n) and maybe a total, or a failure
OkResponse(from, n, hasTotal, total) ==
    [kind |-> "ok", from |-> from, n |-> n, hasTotal |-> hasTotal, total |-> total]
Failure(kind) == [kind |-> kind, from |-> 0, n |-> 0, hasTotal |-> FALSE, total |-> 0]

\* caught by fetch_jira_tickets (lines 90-106)
CaughtKinds == {"http_error", "connection_error", "timeout", "bad_json"}
\* a 2xx response whose body is valid JSON but not an object
ShapeKinds == {"not_an_object"}

Responses(offset) ==
    { OkResponse(f, n, TRUE, t) : f \in {0, offset}, n \in 0..MaxPageSize, t \in (0 - 1)..MaxTotal }
    \cup { OkResponse(f, n, FALSE, 0) : f \in {0, offset}, n \in 0..MaxPageSize }
    \cup { Failure(k) : k \in CaughtKinds \cup ShapeKinds }

Issues(resp) == [i \in 1..resp.n |-> TicketAt(resp.from + i)]

\* data.get("total", 0)
TotalOf(resp) == IF resp.hasTotal THEN resp.total ELSE 0

NoResponse == Failure("none")

\* the server is faithful when it reports the same total T >= 0 on every
\* response and answers startAt with positions [startAt, min(startAt+P, T))
FaithfulAnswer(resp, offset, P, T) ==
    /\ resp.kind = "ok" /\ resp.hasTotal /\ resp.total = T /\ T >= 0
    /\ resp.n = (IF offset >= T THEN 0 ELSE Min(P, T - offset))
    /\ (resp.n > 0 => resp.from = offset)

ApiAfter(resp, offset, P) ==
    LET T == IF requests = <<>> THEN TotalOf(resp) ELSE api.T
    IN [T |-> T, faithful |-> api.faithful /\ FaithfulAnswer(resp, offset, P, T), last |-> resp]

\* ------------------------------------------------------------------ the driver
StartOfRun ==
    /\ configuration = NoConfig
    /\ all_issues = <<>>
    /\ start_at = 0
    /\ total_issues_expected = 0 - 1
    /\ fetched_tickets = None
    /\ requests = <<>>
    /\ api = [T |-> 0, faithful |-> TRUE, last |-> NoResponse]
    /\ trace = <<>>
    /\ files = <<>>
    /\ given = None
    /\ call_path = <<>>
    /\ calls = 0

Init == pc = "main" /\ StartOfRun

\* lines 277-309: no configuration file; the example is printed
MainNoConfigFile ==
    /\ pc = "main"
    /\ pc' = "done"
    /\ UNCHANGED <<configuration, all_issues, start_at, total_issues_expected,
                   fetched_tickets, requests, api, trace, files, given, call_path, calls>>

\* lines 312-313: load_config, then `if configuration:`
MainLoadConfig ==
    /\ pc = "main"
    /\ \E c \in DriverConfigs :
          /\ configuration' = c
          /\ pc' = IF Truthy(c) THEN "fetch" ELSE "done"
    /\ trace' = Append(trace, "load_config")
    /\ UNCHANGED <<all_issues, start_at, total_issues_expected, fetched_tickets,
                   requests, api, files, given, call_path, calls>>

\* lines 24-53: the checks of fetch_jira_tickets and the loop's initial state
FetchBegin ==
    /\ pc = "fetch"
    /\ trace' = Append(trace, "fetch")
    /\ IF ~Truthy(configuration)
          \/ ~(configuration.access_token /\ configuration.jira_base_url
               /\ configuration.jql_query)
       THEN /\ fetched_tickets' = None
            /\ pc' = "after_fetch"
            /\ UNCHANGED <<all_issues, start_at, total_issues_expected>>
       ELSE /\ all_issues' = <<>>
            /\ start_at' = 0
            /\ total_issues_expected' = 0 - 1
            /\ pc' = "loop"
            /\ UNCHANGED fetched_tickets
    /\ UNCHANGED <<configuration, requests, api, files, given, call_path, calls>>

\* a variant that puts the new page first
Prepend(issues, issues_on_page) == issues_on_page \o issues

\* a variant without `or not issues_on_page`
LoopEndsAtTotalOnly(offset, expected, issues_on_page) == offset >= expected

\* a variant that tests `is not None`
IsNotNone(tickets) == ~tickets.none

\* line 76: all_issues.extend(issues_on_page)
Extend(issues, issues_on_page) == issues \o issues_on_page

\* a variant that reads the total from every response
ExpectedOverwritten(expected, resp) == TotalOf(resp)

\* a variant that advances by the page size asked for
AdvanceByPageSize(offset, issues_on_page) == offset + configuration.max_results

\* lines 78-79: the total is read while total_issues_expected is still -1
ExpectedAfter(expected, resp) == IF expected = 0 - 1 THEN TotalOf(resp) ELSE expected

\* line 85: start_at += len(issues_on_page)
Advance(offset, issues_on_page) == offset + Len(issues_on_page)

\* line 86: the test that breaks out of the loop
LoopEnds(offset, expected, issues_on_page) == offset >= expected \/ issues_on_page = <<>>

\* line 316: `if fetched_tickets:`
HasTickets(tickets) == ~tickets.none /\ tickets.items # <<>>

\* lines 59-107: one iteration of the while loop, with the return it leads to
FetchRequest ==
    /\ pc = "loop"
    /\ \E resp \in Responses(start_at) :
          /\ requests' = Append(requests, start_at)
          /\ api' = ApiAfter(resp, start_at, configuration.max_results)
          /\ CASE resp.kind = "ok" ->
                    LET issues_on_page == Issues(resp)
                        total == ExpectedAfter(total_issues_expected, resp)
                        next == Advance(start_at, issues_on_page)
                    IN /\ all_issues' = Extend(all_issues, issues_on_page)
                       /\ total_issues_expected' = total
                       /\ start_at' = next
                       /\ IF LoopEnds(next, total, issues_on_page)
                          THEN /\ fetched_tickets' = Batch(all_issues')
                               /\ pc' = "after_fetch"
                          ELSE /\ pc' = "loop"
                               /\ UNCHANGED fetched_tickets
               [] resp.kind \in CaughtKinds ->
                    /\ fetched_tickets' = None
                    /\ pc' = "after_fetch"
                    /\ UNCHANGED <<all_issues, start_at, total_issues_expected>>
               [] OTHER ->
                    /\ pc' = "crashed"
                    /\ UNCHANGED <<all_issues, start_at, total_issues_expected, fetched_tickets>>
    /\ UNCHANGED <<configuration, trace, files, given, call_path, calls>>

\* lines 316, 321-322: `if fetched_tickets:`
MainAfterFetch ==
    /\ pc = "after_fetch"
    /\ pc' = IF HasTickets(fetched_tickets) THEN "process" ELSE "done"
    /\ UNCHANGED <<configuration, all_issues, start_at, total_issues_expected,
                   fetched_tickets, requests, api, trace, files, given, call_path, calls>>

\* line 318
MainProcess ==
    /\ pc = "process"
    /\ LET r == process_tickets_data(fetched_tickets, configuration)
       IN /\ fetched_tickets' = r.tickets
          /\ pc' = IF r.raised THEN "crashed" ELSE "save"
    /\ trace' = Append(trace, "process_tickets_data")
    /\ UNCHANGED <<configuration, all_issues, start_at, total_issues_expected,
                   requests, api, files, given, call_path, calls>>

\* line 320
MainSave ==
    /\ pc = "save"
    /\ LET r == save_tickets(fetched_tickets, configuration)
       IN /\ files' = files \o r.files
          /\ trace' = trace \o <<"save_tickets">>
                            \o (IF r.error THEN <<"unsupported_format">> ELSE <<>>)
          /\ pc' = IF r.raised THEN "crashed" ELSE "done"
    /\ UNCHANGED <<configuration, all_issues, start_at, total_issues_expected,
                   fetched_tickets, requests, api, given, call_path, calls>>

Next ==
    \/ MainNoConfigFile
    \/ MainLoadConfig
    \/ FetchBegin
    \/ FetchRequest
    \/ MainAfterFetch
    \/ MainProcess
    \/ MainSave

Spec == Init /\ [][Next]_vars

\* every request gets an outcome: a response, or a failure no later than the
\* 30 s timeout of line 71
FairSpec == Spec /\ WF_vars(FetchRequest)

\* ------------------------------------------- calls of one function under test
\* The inputs of a call: JSON trees over the keys "a" and "b". Under "a" a
\* dict holds any smaller tree, under "b" a scalar; a list holds any smaller
\* tree, then at most one of the fillers.
Scalars == {Num, Str(A)}
Fillers == {Num, Dict(<<KV(A, Num), KV(B, Num)>>), List(<<Dict(<<KV(A, Num)>>)>>)}

DictsOver(V) ==
    { Dict(ea \o eb) : ea \in {<<>>} \cup {<<KV(A, v)>> : v \in V},
                       eb \in {<<>>} \cup {<<KV(B, v)>> : v \in Scalars} }

ListsOver(V) ==
    {List(<<>>)} \cup { List(<<v>> \o r) : v \in V, r \in {<<>>} \cup {<<f>> : f \in Fillers} }

RECURSIVE Trees(_)
Trees(depth) ==
    IF depth = 0 THEN Scalars
    ELSE LET smaller == Trees(depth - 1)
         IN Scalars \cup DictsOver(smaller) \cup ListsOver(smaller)

\* non-empty segment lists; "" is the segment split leaves between two dots
SegmentLists == UNION {[1..n -> {A, B, <<>>}] : n \in 1..MaxPathLen}

InitDelete ==
    /\ pc = "delete"
    /\ \E target \in Trees(MaxPathLen), segments \in SegmentLists :
          /\ given = Batch(<<target>>)
          /\ fetched_tickets = Batch(<<target>>)
          /\ call_path = segments
    /\ configuration = NoConfig
    /\ all_issues = <<>>
    /\ start_at = 0
    /\ total_issues_expected = 0 - 1
    /\ requests = <<>>
    /\ api = [T |-> 0, faithful |-> TRUE, last |-> NoResponse]
    /\ trace = <<>>
    /\ files = <<>>
    /\ calls = 0

\* one call _delete_nested_key_recursive(current_item, path_segments)
CallDelete ==
    /\ pc = "delete"
    /\ LET r == _delete_nested_key_recursive(fetched_tickets.items[1], call_path)
       IN IF r = Raise
          THEN pc' = "crashed" /\ UNCHANGED fetched_tickets
          ELSE pc' = "returned" /\ fetched_tickets' = Batch(<<r>>)
    /\ calls' = calls + 1
    /\ UNCHANGED <<configuration, all_issues, start_at, total_issues_expected,
                   requests, api, trace, files, given, call_path>>

NextDelete == CallDelete

SpecDelete == InitDelete /\ [][NextDelete]_vars

\* tickets that process_tickets_data has to skip, whole or in part
MalformedTickets ==
    { Num,
      List(<<Dict(<<KV(A, Num)>>)>>),
      Dict(<<KV(A, Num), KV(B, Num)>>),
      Dict(<<KV(A, Num), KV(FieldsKey, Num)>>),
      Dict(<<KV(FieldsKey, List(<<Dict(<<KV(A, Dict(<<KV(A, Num)>>))>>)>>))>>) }

TicketWith(x, y) ==
    Dict(<<KV(A, Num), KV(B, Num), KV(FieldsKey, Dict(<<KV(A, x), KV(B, y)>>))>>)

WellFormedTickets ==
    { TicketWith(x, y) : x \in Trees(2), y \in {Num, Dict(<<KV(A, Num), KV(B, Num)>>)} }

NeighbourTickets ==
    { TicketWith(Dict(<<KV(A, Dict(<<KV(A, Num), KV(B, Num)>>)), KV(B, Num)>>), Num),
      TicketWith(List(<<Dict(<<KV(A, Num), KV(B, Num)>>), Dict(<<KV(A, Num), KV(B, Num)>>)>>),
                 Dict(<<KV(A, Num), KV(B, Num)>>)) }

RedactBatches ==
    {<<>>}
    \cup { <<t>> : t \in MalformedTickets \cup WellFormedTickets }
    \cup { <<m, w>> : m \in MalformedTickets, w \in NeighbourTickets }
    \cup { <<w, m, w>> : m \in MalformedTickets, w \in NeighbourTickets }

\* dotted path strings, well formed or not ("", ".", "a..", ".b")
PathStrings == SeqsUpTo({"a", "b", "."}, MaxPathChars)

\* path lists: one path, or two that overlap or are prefixes of one another
PathLists ==
    { <<p>> : p \in PathStrings }
    \cup { <<p, q>> : p \in {<<"a">>, <<"a", ".", "a">>, <<"a", ".", "b">>, <<"b", ".", "a">>},
                      q \in {<<"a">>, <<"a", ".", "a">>, <<"a", ".", "b">>, <<"b">>} }

FieldExclusions ==
    {<<>>}
    \cup { <<[k |-> A, paths |-> ps]>> : ps \in PathLists }
    \cup { <<[k |-> B, paths |-> <<<<"a">>>>], [k |-> A, paths |-> ps]>> : ps \in PathLists }

GlobalExclusions == {<<>>, <<A>>, <<B, A>>, <<FieldsKey, B>>}

InitRedact ==
    /\ pc = "redact"
    /\ \E b \in RedactBatches, g \in GlobalExclusions, x \in FieldExclusions :
          /\ given = Batch(b)
          /\ fetched_tickets = Batch(b)
          /\ configuration = [BaseConfig EXCEPT !.global_key_exclusions = g,
                                                !.ticket_field_exclusions = x]
    /\ call_path = <<>>
    /\ all_issues = <<>>
    /\ start_at = 0
    /\ total_issues_expected = 0 - 1
    /\ requests = <<>>
    /\ api = [T |-> 0, faithful |-> TRUE, last |-> NoResponse]
    /\ trace = <<>>
    /\ files = <<>>
    /\ calls = 0

\* one call process_tickets_data(tickets, config); the batch is redacted twice
CallProcess ==
    /\ pc = "redact"
    /\ LET r == process_tickets_data(fetched_tickets, configuration)
       IN /\ fetched_tickets' = r.tickets
          /\ pc' = IF r.raised THEN "crashed" ELSE IF calls = 0 THEN "redact" ELSE "returned"
    /\ calls' = calls + 1
    /\ UNCHANGED <<configuration, all_issues, start_at, total_issues_expected,
                   requests, api, trace, files, given, call_path>>

NextRedact == CallProcess

SpecRedact == InitRedact /\ [][NextRedact]_vars

\* the values tickets_per_file is given: absent, integers, booleans, floats
\* (in tenths), strings and a list
TpfStrings == SeqsUpTo({"2", "0", "-", ".", "x"}, MaxTpfChars)

TpfValues ==
    {TpfNone, TpfList, TpfBool(0), TpfBool(1)}
    \cup { TpfInt(n) : n \in (0 - 1)..MaxChunk }
    \cup { TpfFloat(t) : t \in {0 - 15, 0 - 5, 0, 5, 10, 15, 20, 25} }
    \cup { TpfStr(x) : x \in TpfStrings }

ExportFormats ==
    { Absent, Present(Json), Present(<<"J", "S", "O", "N">>), Present(<<"J", "s", "o", "n">>),
      Present(<<"x", "m", "l">>), Present(<<"X", "M", "L">>), Present(<<"c", "s", "v">>),
      Present(<<>>) }

InitSave ==
    /\ pc = "save_tickets"
    /\ \E n \in 0..MaxBatch, v \in TpfValues, f \in ExportFormats,
          name \in {Absent, Present(ExportFilename)} :
          /\ given = Batch(ResultList(n))
          /\ fetched_tickets = Batch(ResultList(n))
          /\ configuration = [BaseConfig EXCEPT !.tickets_per_file = v, !.export_format = f,
                                                !.export_filename = name]
    /\ call_path = <<>>
    /\ all_issues = <<>>
    /\ start_at = 0
    /\ total_issues_expected = 0 - 1
    /\ requests = <<>>
    /\ api = [T |-> 0, faithful |-> TRUE, last |-> NoResponse]
    /\ trace = <<>>
    /\ files = <<>>
    /\ calls = 0

\* one call save_tickets(tickets, config)
CallSave ==
    /\ pc = "save_tickets"
    /\ LET r == save_tickets(fetched_tickets, configuration)
       IN /\ files' = files \o r.files
          /\ trace' = trace \o (IF r.error THEN <<"unsupported_format">> ELSE <<>>)
          /\ pc' = IF r.raised THEN "crashed" ELSE "returned"
    /\ calls' = calls + 1
    /\ UNCHANGED <<configuration, all_issues, start_at, total_issues_expected,
                   fetched_tickets, requests, api, given, call_path>>

NextSave == CallSave

SpecSave == InitSave /\ [][NextSave]_vars

\* ------------------------------------------------------------------ claims
Range(f) == {f[i] : i \in DOMAIN f}

\* the loop of fetch_jira_tickets was entered: the configuration passed lines 24-42
LoopEntered ==
    /\ Truthy(configuration)
    /\ configuration.access_token /\ configuration.jira_base_url /\ configuration.jql_query

\* the least k with k * P >= T
IsCeil(k, T, P) == k * P >= T /\ (k - 1) * P < T

\* C1 (as amended): against a faithful server with page size P >= 1 and total
\* T >= 0, fetch_jira_tickets returns exactly the T tickets of the result list
\* in order, after exactly ceil(T/P) requests when T > 0 and exactly one
\* request when T = 0.
C1_FaithfulFetch ==
    (pc = "after_fetch" /\ LoopEntered /\ api.faithful)
        => /\ fetched_tickets = Batch(ResultList(api.T))
           /\ IF api.T = 0 THEN Len(requests) = 1
              ELSE IsCeil(Len(requests), api.T, configuration.max_results)

\* C1 witness: a faithful fetch of 4 tickets in pages of 3 has returned
C1_Witness ==
    /\ pc = "after_fetch" /\ LoopEntered /\ api.faithful
    /\ api.T = 4 /\ configuration.max_results = 3
    /\ Len(requests) = 2 /\ Len(fetched_tickets.items) = 4

\* C1 as first stated: zero requests when T = 0
C1_Original ==
    (pc = "after_fetch" /\ LoopEntered /\ api.faithful)
        => /\ fetched_tickets = Batch(ResultList(api.T))
           /\ IF api.T = 0 THEN Len(requests) = 0
              ELSE IsCeil(Len(requests), api.T, configuration.max_results)

\* C2: the pagination loop always ends, and a successful response with an
\* empty issues list ends it at once, returning what was accumulated, also
\* while start_at < total_issues_expected.
C2_LoopTerminates ==
    /\ [][(pc = "loop" /\ api'.last.kind = "ok" /\ api'.last.n = 0)
            => (pc' = "after_fetch" /\ fetched_tickets' = Batch(all_issues))]_vars
    /\ (pc = "loop") ~> (pc # "loop")

\* C2 witness: the loop has ended on an empty page short of the reported total
C2_Witness ==
    /\ pc = "after_fetch" /\ api.last.kind = "ok" /\ api.last.n = 0
    /\ start_at < total_issues_expected
    /\ all_issues # <<>> /\ fetched_tickets = Batch(all_issues)

\* C3: once a request has failed (transport, status or malformed body) the
\* fetch has returned None, no exception has escaped and no further request
\* is issued.
C3_AllOrNothing ==
    (requests # <<>> /\ api.last.kind # "ok")
        => (pc \notin {"loop", "crashed"} /\ fetched_tickets = None)

\* C10: stages run in the order load, fetch, redact, write; nothing is
\* requested after a configuration or precondition failure; nothing is
\* redacted or written unless the fetch produced tickets.
C10_StageShortCircuit ==
    /\ \E n \in 0..4 :
          SubSeq(<<"load_config", "fetch", "process_tickets_data", "save_tickets">>, 1, n)
             = SelectSeq(trace, LAMBDA e : e # "unsupported_format")
    /\ ~LoopEntered => requests = <<>>
    /\ (~LoopEntered \/ fetched_tickets.none \/ fetched_tickets.items = <<>>)
          => (/\ "process_tickets_data" \notin Range(trace)
              /\ "save_tickets" \notin Range(trace)
              /\ files = <<>>
              /\ pc \notin {"process", "save"})
    /\ "process_tickets_data" \in Range(trace) => requests # <<>>

\* C10 witness: a run that ended after a fetch that yielded no tickets
C10_Witness ==
    /\ pc = "done" /\ LoopEntered /\ requests # <<>>
    /\ (fetched_tickets.none \/ fetched_tickets.items = <<>>)
    /\ trace = <<"load_config", "fetch">> /\ files = <<>>

\* The entries a path addresses, each named by its position: the indices
\* leading to it from the root. A list passes the whole path on to each
\* element that is a dict; a dict follows the first segment if it has it.
RECURSIVE Addressed(_, _)
Addressed(node, segments) ==
    IF segments = <<>> THEN {}
    ELSE IF IsList(node)
    THEN UNION { {<<i>> \o p : p \in Addressed(node.kids[i].v, segments)}
                 : i \in {j \in DOMAIN node.kids : IsDict(node.kids[j].v)} }
    ELSE IF IsDict(node)
    THEN UNION { IF Len(segments) = 1 THEN {<<i>>}
                 ELSE {<<i>> \o p : p \in Addressed(node.kids[i].v, Tail(segments))}
                 : i \in {j \in DOMAIN node.kids : node.kids[j].k = Head(segments)} }
    ELSE {}

\* node without the entries at the given positions, all else as it was
RECURSIVE Without(_, _)
Without(node, positions) ==
    LET keep == SelectSeq([i \in DOMAIN node.kids |-> i], LAMBDA i : <<i>> \notin positions)
    IN [node EXCEPT !.kids =
          [n \in DOMAIN keep |->
              KV(node.kids[keep[n]].k,
                 Without(node.kids[keep[n]].v,
                         {Tail(p) : p \in {q \in positions : Len(q) > 1 /\ Head(q) = keep[n]}}))]]

\* the example of the specification: fields.comment with path comments.self
\* (comments is "a", self is "b", id is "a")
CommentsExample == Dict(<<KV(A, List(<<Dict(<<KV(A, Num), KV(B, Num)>>),
                                       Dict(<<KV(A, Num), KV(B, Num)>>)>>))>>)
CommentsRedacted == Dict(<<KV(A, List(<<Dict(<<KV(A, Num)>>), Dict(<<KV(A, Num)>>)>>))>>)

\* C5: a call of _delete_nested_key_recursive with a non-empty segment list
\* returns without raising and leaves the target without exactly the entries
\* the path addresses (fanning out over the dict elements of every list met,
\* skipping other elements, stopping at an absent segment or a scalar);
\* every other entry keeps its place and value.
C5_NestedDeletion ==
    (pc \in {"returned", "crashed"} /\ calls = 1)
        => /\ pc = "returned"
           /\ fetched_tickets.items[1]
                 = Without(given.items[1], Addressed(given.items[1], call_path))
           /\ (given.items[1] = CommentsExample /\ call_path = <<A, B>>)
                 => fetched_tickets.items[1] = CommentsRedacted

\* C5 witness: comments.self has been deleted from both elements of the list
C5_Witness ==
    /\ pc = "returned" /\ calls = 1
    /\ given.items[1] = CommentsExample /\ call_path = <<A, B>>
    /\ fetched_tickets.items[1] = CommentsRedacted

\* C4: a second call of process_tickets_data with the same configuration
\* leaves the batch exactly as the first call left it.
C4_Idempotent ==
    [][(calls = 1 /\ calls' = 2) => (pc' = "returned" /\ fetched_tickets' = fetched_tickets)]_vars

\* C4 witness: a batch changed by the first call, with a path and its prefix
\* in one list, has been redacted twice
C4_Witness ==
    /\ pc = "returned" /\ calls = 2 /\ fetched_tickets # given
    /\ configuration.global_key_exclusions = <<B, A>>
    /\ \E i \in DOMAIN configuration.ticket_field_exclusions :
          configuration.ticket_field_exclusions[i].paths = <<<<"a", ".", "b">>, <<"a">>>>

\* what a call has left of one ticket is fully redacted
Redacted(ticket, config) ==
    IF ~IsDict(ticket) THEN TRUE
    ELSE /\ \A i \in DOMAIN config.global_key_exclusions :
              ~HasKey(ticket, config.global_key_exclusions[i])
         /\ (HasKey(ticket, FieldsKey) /\ IsDict(GetKey(ticket, FieldsKey)))
              => \A i \in DOMAIN config.ticket_field_exclusions :
                   LET e == config.ticket_field_exclusions[i]
                       f == GetKey(ticket, FieldsKey)
                   IN (HasKey(f, e.k) /\ GetKey(f, e.k).t \in {"dict", "list"})
                        => \A j \in DOMAIN e.paths :
                              Addressed(GetKey(f, e.k), PySplit(e.paths[j], ".")) = {}

\* the batch has a rule to apply
HasRules(config) ==
    config.global_key_exclusions # <<>> \/ config.ticket_field_exclusions # <<>>

\* C6: process_tickets_data never raises; it leaves as they are the tickets
\* that are not dicts, and malformed tickets and paths that address nothing
\* stop neither the later paths nor the later tickets: after the call no
\* ticket holds anything the rules address.
C6_NeverRaises ==
    calls >= 1
        => /\ pc # "crashed"
           /\ Len(fetched_tickets.items) = Len(given.items)
           /\ \A i \in DOMAIN given.items :
                 /\ ~IsDict(given.items[i]) => fetched_tickets.items[i] = given.items[i]
                 /\ HasRules(configuration) => Redacted(fetched_tickets.items[i], configuration)

\* C6 witness: a batch with a ticket that is no dict between two tickets that
\* were redacted, under a path list whose first path addresses nothing
C6_Witness ==
    /\ calls = 1 /\ pc = "redact" /\ Len(given.items) = 3
    /\ ~IsDict(given.items[2])
    /\ fetched_tickets.items[1] # given.items[1]
    /\ fetched_tickets.items[3] # given.items[3]
    /\ \E i \in DOMAIN configuration.ticket_field_exclusions :
          /\ configuration.ticket_field_exclusions[i].paths = <<<<"b", ".", "a">>, <<"a">>>>
          /\ configuration.global_key_exclusions = <<>>

\* export_format is json in some spelling, or absent (json is the default)
FormatIsJson ==
    configuration.export_format
        \in {Absent, Present(Json), Present(<<"J", "S", "O", "N">>), Present(<<"J", "s", "o", "n">>)}

FilenameBase ==
    IF configuration.export_filename.has THEN configuration.export_filename.v
    ELSE DefaultExportFilename

\* the files are the numbered chunks of the batch, N tickets each
IsChunked(N) ==
    /\ IsCeil(Len(files), Len(given.items), N)
    /\ \A i \in DOMAIN files :
          /\ files[i].name = FilenameBase \o PyStr(i) \o <<".", "j", "s", "o", "n">>
          /\ files[i].content = SubSeq(given.items, (i - 1) * N + 1, Min(i * N, Len(given.items)))
          /\ Len(files[i].content) <= N
    /\ Concat([i \in DOMAIN files |-> files[i].content]) = given.items

\* the one file is the whole batch under the unnumbered name
IsSingleFile(extension) ==
    files = <<[name |-> FilenameBase \o <<".">> \o extension, content |-> given.items]>>

\* C7 (as amended): with export_format json and tickets_per_file an integer
\* N >= 1, save_tickets writes a batch of total >= 1 tickets to exactly
\* ceil(total/N) files named {export_filename}1 .. {export_filename}k.json in
\* increasing order, each a consecutive chunk of at most N tickets, whose
\* concatenation is the batch; an empty batch is written as [] to the one
\* unnumbered file {export_filename}.json.
C7_ChunkedWrite ==
    (calls = 1 /\ FormatIsJson
       /\ configuration.tickets_per_file.k = "int" /\ configuration.tickets_per_file.n >= 1)
        => /\ pc = "returned"
           /\ IF given.items = <<>> THEN IsSingleFile(Json)
              ELSE IsChunked(configuration.tickets_per_file.n)

\* C7 witness: 5 tickets with tickets_per_file 2 have gone to files of 2, 2 and 1
C7_Witness ==
    /\ calls = 1 /\ pc = "returned" /\ FormatIsJson
    /\ configuration.tickets_per_file = TpfInt(2)
    /\ Len(given.items) = 5
    /\ Len(files) = 3
    /\ <<Len(files[1].content), Len(files[2].content), Len(files[3].content)>> = <<2, 2, 1>>

\* C7 as first stated: ceil(total/N) numbered files for every total >= 0
C7_Original ==
    (calls = 1 /\ FormatIsJson
       /\ configuration.tickets_per_file.k = "int" /\ configuration.tickets_per_file.n >= 1)
        => (pc = "returned" /\ IsChunked(configuration.tickets_per_file.n))

\* C8: with an export_format that is not json in any spelling, save_tickets
\* reports the unsupported format and writes no file, whatever the batch and
\* whatever tickets_per_file holds.
C8_UnsupportedFormat ==
    (calls = 1 /\ ~FormatIsJson)
        => (pc = "returned" /\ files = <<>> /\ trace = <<"unsupported_format">>)

\* tickets_per_file is no positive integer: absent, an integer <= 0, a
\* fractional or non-positive float, a string that is no positive integer, a list
NotAPositiveInteger(v) ==
    \/ v.k \in {"none", "list"}
    \/ v.k = "int" /\ v.n <= 0
    \/ v.k = "float" /\ (v.n <= 0 \/ v.n % 10 # 0)
    \/ v.k = "str" /\ ~(/\ v.s # <<>>
                        /\ \A i \in DOMAIN v.s : IsDigit(v.s[i])
                        /\ \E i \in DOMAIN v.s : v.s[i] # "0")

\* C9: a tickets_per_file that is no positive integer makes save_tickets
\* return normally after writing the whole batch to the one unnumbered file.
C9_FallbackToSingleFile ==
    (calls = 1 /\ FormatIsJson /\ NotAPositiveInteger(configuration.tickets_per_file))
        => (pc = "returned" /\ IsSingleFile(Json))

\* C11: after every successful response the value the loop's exit test
\* compares start_at with is the total of the first response (0 when it
\* carries none), whatever that total is (0, absent, -1) and whatever totals
\* the later responses carry; the loop goes on exactly when start_at is below
\* that value and the page was not empty.
C11_FirstTotalOnly ==
    [][(pc = "loop" /\ api'.last.kind = "ok")
         => /\ total_issues_expected' = api'.T
            /\ (pc' = "loop") = (start_at' < api'.T /\ api'.last.n > 0)
            /\ (pc' # "loop") => pc' = "after_fetch"]_vars

\* C11 witness: a later response has carried another total and the first one stands
C11_Witness ==
    /\ Len(requests) >= 2 /\ api.last.kind = "ok" /\ api.last.hasTotal
    /\ api.last.total > api.T /\ start_at < api.last.total
    /\ total_issues_expected = api.T /\ pc = "after_fetch"

\* C11 witness of the marker value: a first total of -1 has ended the loop
C11_MarkerReached ==
    /\ Len(requests) = 1 /\ api.last.kind = "ok" /\ api.T = 0 - 1 /\ api.last.n > 0
    /\ total_issues_expected = 0 - 1 /\ pc = "after_fetch"

\* C12: the first request is sent with startAt 0; every later one with the
\* startAt of the request before plus the length of the page that request
\* returned, which is the number of tickets accumulated; the startAt values
\* strictly increase; a request is sent only from the head of the loop, when
\* the response before it has been processed.
C12_OffsetInvariant ==
    /\ [](/\ (requests # <<>> => requests[1] = 0)
          /\ \A i \in DOMAIN requests : \A j \in DOMAIN requests :
                i < j => requests[i] < requests[j]
          /\ (pc = "loop" => start_at = Len(all_issues)))
    /\ [][requests' # requests
            => /\ pc = "loop"
               /\ requests' = Append(requests,
                                     IF requests = <<>> THEN 0
                                     ELSE requests[Len(requests)] + api.last.n)
               /\ requests'[Len(requests')] = Len(all_issues)]_vars

\* C12 witness: after a page of 1 ticket under page size 3 the second request
\* was sent with startAt 1, the third with startAt 3
C12_Witness ==
    /\ configuration.max_results = 3
    /\ requests = <<0, 1, 3>>
    /\ Len(all_issues) >= 3

====
